---------------------------- MODULE Spec2Model ----------------------------
(***************************************************************************)
(* calc-rs: an interactive RPN calculator (src/src/main.rs).               *)
(*                                                                         *)
(* The model has three layers:                                             *)
(*   1. the fixed-width integer and Ratio arithmetic that Line::calc calls *)
(*      (num::Rational64 = Ratio<i64>), with the component width scaled    *)
(*      down from 64 bits to IntBits bits and the exponent width (i32)     *)
(*      scaled down to ExpBits bits;                                       *)
(*   2. the parser (Operator::parse, Item::parse, Line::parse) over        *)
(*      sequences of characters, and the evaluator Line::calc;             *)
(*   3. the read-eval loop of main.                                        *)
(*                                                                         *)
(* Arithmetic that is not overflow-checked (Sum's `+`, Ratio::pow) panics  *)
(* in a build with overflow checks and wraps in a build without them; the  *)
(* variable overflow_checks fixes the build at start-up and both are       *)
(* explored.                                                               *)
(***************************************************************************)
EXTENDS Integers, Sequences, FiniteSets, TLC

VARIABLES
    overflow_checks, \* the build: TRUE = overflow checks on (debug profile)
    buffer,          \* main: `buffer`, the String read_line appends to
    stack,           \* main: `stack`, the session stack
    pc,              \* main: "loop", "exited" (exit(0)), "panicked" (abort)
    printed,         \* main: the kind of the last message printed
    input,           \* the text of the line read by the last iteration
    line,            \* the Line (items) parsed by the last iteration
    residue,         \* the unparsed remainder Line::parse returned with it
    prev_stack,      \* the session stack when the last iteration began
    calc_result,     \* what line.calc returned in the last iteration
    typed,           \* number of characters typed so far, newlines included
    handed,          \* main: `buffer` as the last read_line left it, the text
                     \* handed to the exit check and to Line::parse
    history,         \* every iteration so far: the text read, the Line
                     \* parsed, the kind of result
    fold_acc,        \* Line::calc's fold: the accumulator (a Result)
    fold_item,       \* Line::calc's fold: the item the closure last took
    fold_before,     \* Line::calc's fold: the stack that closure call began with
    fold_n,          \* Line::calc's fold: number of items folded so far
    round_stack,     \* the stack a Divide/Multiply round trip starts from
    round_d          \* the integer a round trip divides and multiplies by

vars == <<overflow_checks, buffer, stack, pc, printed, input, line, residue,
          prev_stack, calc_result, typed, handed, history, fold_acc,
          fold_item, fold_before, fold_n, round_stack, round_d>>

-----------------------------------------------------------------------------
(* Bounds *)

\* width in bits of a Ratio component (i64 in the program)
IntBits == 7
\* width in bits of the exponent Ratio::pow takes (i32 in the program)
ExpBits == 4
\* deepest existing_stack a fold of Line::calc starts from
MaxStack == 2
\* number of items a fold of Line::calc is followed through
MaxItems == 3
\* number of characters typed in a session, newlines included, before the
\* line that ends it
MaxTyped == 5

-----------------------------------------------------------------------------
(* Fixed-width signed integers *)

RECURSIVE Pow2(_)
Pow2(n) == IF n = 0 THEN 1 ELSE 2 * Pow2(n - 1)

Modulus == Pow2(IntBits)
MinInt == -Pow2(IntBits - 1)
MaxInt == Pow2(IntBits - 1) - 1
ExpMin == -Pow2(ExpBits - 1)
ExpMax == Pow2(ExpBits - 1) - 1

InRange(x) == MinInt <= x /\ x <= MaxInt

\* two's-complement wrap-around of an exact result
Wrap(x) == ((x - MinInt) % Modulus) + MinInt

Abs(x) == IF x < 0 THEN -x ELSE x

\* Rust's `/` on integers truncates toward zero; b # 0
TDiv(a, b) ==
    IF (a >= 0) = (b > 0) THEN Abs(a) \div Abs(b) ELSE -(Abs(a) \div Abs(b))

\* `a / b` panics in every build on b = 0 and on MIN / -1
DivPanics(a, b) == b = 0 \/ (a = MinInt /\ b = -1)

\* the value of `a / b` where it does not panic (0 stands in where it does)
Quot(a, b) == IF DivPanics(a, b) THEN 0 ELSE TDiv(a, b)

RECURSIVE GCDNat(_, _)
GCDNat(m, n) == IF n = 0 THEN m ELSE GCDNat(n, m % n)

\* Integer::gcd for a signed type: the gcd of the magnitudes; it is 2^(w-1)
\* only for {MIN, MIN} and {MIN, 0}, where `.abs()` overflows
gcd(m, n) ==
    LET g == GCDNat(Abs(m), Abs(n))
    IN  [ov |-> ~InRange(g), v |-> Wrap(g)]

\* Integer::lcm: (self * (other / gcd)).abs(), 0 when both are 0
lcm(m, n) ==
    IF m = 0 /\ n = 0 THEN [panic |-> FALSE, ov |-> FALSE, v |-> 0]
    ELSE LET g == gcd(m, n)
             q == Quot(n, g.v)
             p == m * q
             a == Abs(Wrap(p))
         IN  [panic |-> DivPanics(n, g.v),
              ov    |-> g.ov \/ ~InRange(p) \/ ~InRange(a),
              v     |-> Wrap(a)]


\* i64::pow(b, e), e >= 0: the wrapped value of b^e
RECURSIVE PowWrap(_, _)
PowWrap(b, e) == IF e = 0 THEN 1 ELSE Wrap(b * PowWrap(b, e - 1))

\* b^e exactly while it is in range, and an out-of-range value from the first
\* power that leaves the range on (|b^k| grows with k once it has left it)
RECURSIVE PowSat(_, _)
PowSat(b, e) ==
    IF e = 0 THEN 1
    ELSE LET p == PowSat(b, e - 1)
         IN  IF InRange(p) THEN b * p ELSE p

\* i64::pow overflows exactly when b^e is not representable
int_pow(b, e) == [ov |-> ~InRange(PowSat(b, e)), v |-> PowWrap(b, e)]

-----------------------------------------------------------------------------
(* num::rational::Ratio<i64> *)

Ratio(n, d) == [numer |-> n, denom |-> d]

\* Ratio::from_integer, Rational64::from
from_integer(n) == Ratio(n, 1)

Zero == Ratio(0, 1)
One == Ratio(1, 1)

\* a library call that may panic: `hard` in every build, `ov` (an arithmetic
\* overflow) only in a build with overflow checks, where the other wraps
Outcome(hard, ov, r) == [panic |-> hard \/ (overflow_checks /\ ov), r |-> r]

\* Ratio::new = new_raw + reduce: lowest terms, positive denominator
Ratio_new(n, d) ==
    IF d = 0 THEN [hard |-> TRUE, ov |-> FALSE, r |-> Ratio(n, d)]
    ELSE IF n = 0 THEN [hard |-> FALSE, ov |-> FALSE, r |-> Zero]
    ELSE IF n = d THEN [hard |-> FALSE, ov |-> FALSE, r |-> One]
    ELSE LET g  == gcd(n, d)
             n1 == Quot(n, g.v)
             d1 == Quot(d, g.v)
         IN  IF d1 < 0
             THEN [hard |-> FALSE,
                   ov   |-> g.ov \/ n1 = MinInt \/ d1 = MinInt,
                   r    |-> Ratio(Wrap(-n1), Wrap(-d1))]
             ELSE [hard |-> FALSE, ov |-> g.ov, r |-> Ratio(n1, d1)]

\* a library result with the panics and overflows met on the way to it
After(hard, ov, m) == [hard |-> hard \/ m.hard, ov |-> ov \/ m.ov, r |-> m.r]

\* Ratio::new(lhs_numer + rhs_numer, lcm), the numerators given exactly
add_numers(c, ln, rn) ==
    After(c.panic,
          c.ov \/ ~InRange(ln) \/ ~InRange(rn)
               \/ ~InRange(Wrap(ln) + Wrap(rn)),
          Ratio_new(Wrap(Wrap(ln) + Wrap(rn)), c.v))

\* lhs_numer = self.numer * (lcm / self.denom), and the same for rhs
add_lcm(l, r, c) ==
    After(DivPanics(c.v, l.denom) \/ DivPanics(c.v, r.denom), FALSE,
          add_numers(c, l.numer * Quot(c.v, l.denom),
                        r.numer * Quot(c.v, r.denom)))

\* `impl Add for Ratio`: the unchecked sum that Iterator::sum folds with
Ratio_add(l, r) ==
    IF l.denom = r.denom
    THEN After(FALSE, ~InRange(l.numer + r.numer),
               Ratio_new(Wrap(l.numer + r.numer), r.denom))
    ELSE add_lcm(l, r, lcm(l.denom, r.denom))

\* `impl Sum<&Ratio> for Ratio`: iter.fold(zero, |sum, num| sum + num)
RECURSIVE sum_from(_, _)
sum_from(t, s) ==
    IF s = <<>> THEN t
    ELSE sum_from(After(t.hard, t.ov, Ratio_add(t.r, Head(s))), Tail(s))

sum_result(t) == Outcome(t.hard, t.ov, t.r)

sum(s) == sum_result(sum_from([hard |-> FALSE, ov |-> FALSE, r |-> Zero], s))

\* Option<Ratio> as a checked operation returns it, or a panic inside it
Some(r) == [tag |-> "Some", r |-> r]
None == [tag |-> "None", r |-> Zero]
Panicked == [tag |-> "Panic", r |-> Zero]

\* Some(Ratio::new(n, d)) at the end of a checked operation
SomeNew(n, d) ==
    LET m == Ratio_new(n, d)
    IN  IF Outcome(m.hard, m.ov, m.r).panic THEN Panicked ELSE Some(m.r)

\* checked_arith_impl!: CheckedAdd (sgn = 1) and CheckedSub (sgn = -1)
\*   gcd = self.denom.gcd(rhs.denom); lcm = (self.denom / gcd).checked_mul(rhs.denom)?
\*   lhs_numer = (lcm / self.denom).checked_mul(self.numer)?
\*   rhs_numer = (lcm / rhs.denom).checked_mul(rhs.numer)?
\*   Some(Ratio::new(lhs_numer.checked_add(rhs_numer)?, lcm))
checked_arith(l, r, sgn) ==
    LET g == gcd(l.denom, r.denom)
    IN  IF (overflow_checks /\ g.ov) \/ DivPanics(l.denom, g.v) THEN Panicked
        ELSE LET c == TDiv(l.denom, g.v) * r.denom
        IN  IF ~InRange(c) THEN None
        ELSE IF DivPanics(c, l.denom) THEN Panicked
        ELSE LET ln == TDiv(c, l.denom) * l.numer
        IN  IF ~InRange(ln) THEN None
        ELSE IF DivPanics(c, r.denom) THEN Panicked
        ELSE LET rn == TDiv(c, r.denom) * r.numer
        IN  IF ~InRange(rn) THEN None
        ELSE IF ~InRange(ln + sgn * rn) THEN None
        ELSE SomeNew(ln + sgn * rn, c)

checked_add(l, r) == checked_arith(l, r, 1)

checked_sub(l, r) == checked_arith(l, r, -1)

\* CheckedMul without the cross-cancelling: the products of the components
checked_mul_uncancelled(l, r) ==
    IF ~InRange(l.numer * r.numer) THEN None
    ELSE IF ~InRange(l.denom * r.denom) THEN None
    ELSE SomeNew(l.numer * r.numer, l.denom * r.denom)

\* CheckedMul for Ratio: cross-cancel, multiply checked, Ratio::new
checked_mul(l, r) ==
    LET gad == gcd(l.numer, r.denom)
        gbc == gcd(l.denom, r.numer)
    IN  IF overflow_checks /\ (gad.ov \/ gbc.ov) THEN Panicked
        ELSE IF DivPanics(l.numer, gad.v) \/ DivPanics(r.numer, gbc.v)
        THEN Panicked
        ELSE LET n == TDiv(l.numer, gad.v) * TDiv(r.numer, gbc.v)
        IN  IF ~InRange(n) THEN None
        ELSE IF DivPanics(l.denom, gbc.v) \/ DivPanics(r.denom, gad.v)
        THEN Panicked
        ELSE LET d == TDiv(l.denom, gbc.v) * TDiv(r.denom, gad.v)
        IN  IF ~InRange(d) THEN None
        ELSE SomeNew(n, d)

\* the end of CheckedDiv: the "manual reduce" of numer / denom
div_reduce(numer, denom) ==
    IF denom = 0 THEN None
    ELSE IF numer = 0 THEN Some(Zero)
    ELSE IF numer = denom THEN Some(One)
    ELSE LET g == gcd(numer, denom)
         IN  IF overflow_checks /\ g.ov THEN Panicked
             ELSE IF DivPanics(numer, g.v) \/ DivPanics(denom, g.v)
             THEN Panicked
             ELSE LET n == TDiv(numer, g.v)
                      d == TDiv(denom, g.v)
             IN  IF d < 0
                 THEN IF n = MinInt \/ d = MinInt THEN None
                      ELSE Some(Ratio(-n, -d))
                 ELSE Some(Ratio(n, d))

\* CheckedDiv for Ratio: None on a zero divisor
checked_div(l, r) ==
    IF r.numer = 0 THEN None
    ELSE IF l.denom = r.denom THEN div_reduce(l.numer, r.numer)
    ELSE IF l.numer = r.numer THEN div_reduce(r.denom, l.denom)
    ELSE LET gac == gcd(l.numer, r.numer)
             gbd == gcd(l.denom, r.denom)
         IN  IF overflow_checks /\ (gac.ov \/ gbd.ov) THEN Panicked
             ELSE IF DivPanics(l.numer, gac.v) \/ DivPanics(r.denom, gbd.v)
             THEN Panicked
             ELSE LET n == TDiv(l.numer, gac.v) * TDiv(r.denom, gbd.v)
             IN  IF ~InRange(n) THEN None
             ELSE IF DivPanics(l.denom, gbd.v) \/ DivPanics(r.numer, gac.v)
             THEN Panicked
             ELSE LET d == TDiv(l.denom, gbd.v) * TDiv(r.numer, gac.v)
             IN  IF ~InRange(d) THEN None
             ELSE div_reduce(n, d)

\* Pow<u32> for Ratio: new_raw(numer.pow(e), denom.pow(e)), nothing checked
pow_unsigned(b, e) ==
    LET n == int_pow(b.numer, e)
        d == int_pow(b.denom, e)
    IN  [hard |-> FALSE, ov |-> n.ov \/ d.ov, r |-> Ratio(n.v, d.v)]

\* Ratio::into_recip: panics on zero, keeps the sign with `0 - x`
into_recip(b) ==
    IF b.numer = 0 THEN [hard |-> TRUE, ov |-> FALSE, r |-> b]
    ELSE IF b.numer > 0
    THEN [hard |-> FALSE, ov |-> FALSE, r |-> Ratio(b.denom, b.numer)]
    ELSE [hard |-> FALSE,
          ov   |-> b.denom = MinInt \/ b.numer = MinInt,
          r    |-> Ratio(Wrap(-b.denom), Wrap(-b.numer))]

\* Ratio::pow(&self, expon: i32): One for 0, the reciprocal's power for a
\* negative exponent
pow(b, expon) ==
    IF expon = 0 THEN Outcome(FALSE, FALSE, One)
    ELSE IF expon < 0
    THEN LET i == into_recip(b)
             q == pow_unsigned(i.r, -expon)
         IN  Outcome(i.hard, i.ov \/ q.ov, q.r)
    ELSE LET q == pow_unsigned(b, expon)
         IN  Outcome(q.hard, q.ov, q.r)

\* Ratio::to_integer: numer / denom, truncated toward zero
to_integer(a) ==
    [panic |-> DivPanics(a.numer, a.denom), v |-> Quot(a.numer, a.denom)]

\* i64 -> i32 try_into: Err outside the exponent type's range
try_into(i) == [ok |-> ExpMin <= i /\ i <= ExpMax, v |-> i]

-----------------------------------------------------------------------------
(* Item, Operator, Stack, CalcError *)

Operators == {"Add", "Multiply", "Subtract", "Divide", "Sum", "Power", "Clear"}
BinaryOperators == {"Add", "Multiply", "Subtract", "Divide", "Power"}

\* Item::Num(Rational64) and Item::Operator(Operator)
Num(number) == [type |-> "Num", number |-> number, op |-> "none"]
Operator(op) == [type |-> "Operator", number |-> Zero, op |-> op]

\* Result<Stack, CalcError>, or a panic unwinding out of calc
Ok(s) == [tag |-> "Ok", stack |-> s]
Err(e) == [tag |-> e, stack |-> <<>>]
NotEnoughItemsInStack == Err("NotEnoughItemsInStack")
MathError == Err("MathError")
Panic == Err("Panic")

\* Vec::pop: the last element, if any, and the rest
pop(s) ==
    IF s = <<>> THEN [some |-> FALSE, v |-> Zero, rest |-> s]
    ELSE [some |-> TRUE, v |-> s[Len(s)], rest |-> SubSeq(s, 1, Len(s) - 1)]

\* the result put at the bottom of the stack instead of the top
push_checked_bottom(rest, o) ==
    IF o.tag = "Panic" THEN Panic
    ELSE IF o.tag = "None" THEN MathError
    ELSE Ok(<<o.r>> \o rest)

\* stack.0.push(checked.ok_or(CalcError::MathError)?)
push_checked(rest, o) ==
    IF o.tag = "Panic" THEN Panic
    ELSE IF o.tag = "None" THEN MathError
    ELSE Ok(Append(rest, o.r))

\* Operator::Add
calc_Add(s) ==
    LET a == pop(s)
        b == pop(a.rest)
    IN  IF ~a.some THEN NotEnoughItemsInStack
        ELSE IF ~b.some THEN NotEnoughItemsInStack
        ELSE push_checked(b.rest, checked_add(b.v, a.v))

\* Operator::Multiply
calc_Multiply(s) ==
    LET a == pop(s)
        b == pop(a.rest)
    IN  IF ~a.some THEN NotEnoughItemsInStack
        ELSE IF ~b.some THEN NotEnoughItemsInStack
        ELSE push_checked(b.rest, checked_mul(b.v, a.v))

\* Operator::Subtract
calc_Subtract(s) ==
    LET a == pop(s)
        b == pop(a.rest)
    IN  IF ~a.some THEN NotEnoughItemsInStack
        ELSE IF ~b.some THEN NotEnoughItemsInStack
        ELSE push_checked(b.rest, checked_sub(b.v, a.v))

\* Divide with the wrong error kind on the second pop
calc_Divide_wrong_kind(s) ==
    LET a == pop(s)
        b == pop(a.rest)
    IN  IF ~a.some THEN NotEnoughItemsInStack
        ELSE IF ~b.some THEN MathError
        ELSE push_checked(b.rest, checked_div(b.v, a.v))

\* Divide with the unchecked `b / a`, which panics on a zero divisor
calc_Divide_unchecked(s) ==
    LET a == pop(s)
        b == pop(a.rest)
    IN  IF ~a.some THEN NotEnoughItemsInStack
        ELSE IF ~b.some THEN NotEnoughItemsInStack
        ELSE IF a.v.numer = 0 THEN Panic
        ELSE push_checked(b.rest, checked_div(b.v, a.v))

\* Operator::Divide
calc_Divide(s) ==
    LET a == pop(s)
        b == pop(a.rest)
    IN  IF ~a.some THEN NotEnoughItemsInStack
        ELSE IF ~b.some THEN NotEnoughItemsInStack
        ELSE push_checked(b.rest, checked_div(b.v, a.v))

\* Operator::Sum: stack = Stack(vec![stack.0.iter().sum()])
calc_Sum(s) ==
    LET t == sum(s)
    IN  IF t.panic THEN Panic ELSE Ok(<<t.r>>)

\* Operator::Power: b.pow(a.to_integer().try_into().map_err(MathError)?)
calc_Power(s) ==
    LET a == pop(s)
        b == pop(a.rest)
    IN  IF ~a.some THEN NotEnoughItemsInStack
        ELSE IF ~b.some THEN NotEnoughItemsInStack
        ELSE LET i == to_integer(a.v)
                 e == try_into(i.v)
             IN  IF i.panic THEN Panic
                 ELSE IF ~e.ok THEN MathError
                 ELSE LET p == pow(b.v, e.v)
                      IN  IF p.panic THEN Panic
                          ELSE Ok(Append(b.rest, p.r))

\* Operator::Clear
calc_Clear(s) == Ok(<<>>)

\* the closure Line::calc folds with, after `let mut stack = stack?`
calc_item(s, it) ==
    IF it.type = "Num" THEN Ok(Append(s, it.number))
    ELSE CASE it.op = "Add"      -> calc_Add(s)
           [] it.op = "Multiply" -> calc_Multiply(s)
           [] it.op = "Subtract" -> calc_Subtract(s)
           [] it.op = "Divide"   -> calc_Divide(s)
           [] it.op = "Sum"      -> calc_Sum(s)
           [] it.op = "Power"    -> calc_Power(s)
           [] it.op = "Clear"    -> calc_Clear(s)

\* one step of the fold: `stack?` hands an earlier Err on unchanged
fold_step(r, it) == IF r.tag = "Ok" THEN calc_item(r.stack, it) ELSE r

\* Line::calc: self.0.iter().fold(Ok(existing_stack), closure)
RECURSIVE fold(_, _)
fold(r, its) ==
    IF its = <<>> THEN r ELSE fold(fold_step(r, Head(its)), Tail(its))

calc(self, existing) == fold(Ok(existing), self)

-----------------------------------------------------------------------------
(* The fold of Line::calc, one closure call per step, from any stack of      *)
(* rationals in lowest terms                                                 *)

\* all sequences over S of length at most n
SeqsUpTo(S, n) == UNION {[1..k -> S] : k \in 0..n}

\* a rational as Ratio::new leaves it: positive denominator, lowest terms
Reduced(r) == r.denom > 0 /\ GCDNat(Abs(r.numer), r.denom) = 1

\* the entries the fold starts from: the extremes, small values, a half
Numers == {MinInt, -1, 0, 1, 2, IntBits - 1, MaxInt}
Denoms == {1, 2}
RatSet == {r \in [numer : Numers, denom : Denoms] : Reduced(r)}
StackSet == SeqsUpTo(RatSet, MaxStack)

\* the items of a Line: every operator, and some integer literals
Literals == {0, 2}
ItemSet == {Operator(op) : op \in Operators}
           \cup {Num(from_integer(n)) : n \in Literals}

NoItem == [type |-> "none", number |-> Zero, op |-> "none"]
NotCalled == [tag |-> "none", stack |-> <<>>]

\* the session of main is not running while a fold is followed, and no fold
\* is followed while the session runs
SessionIdle ==
    /\ buffer = <<>>
    /\ stack = <<>>
    /\ pc = "idle"
    /\ printed = "nothing"
    /\ input = <<>>
    /\ line = <<>>
    /\ residue = <<>>
    /\ prev_stack = <<>>
    /\ calc_result = NotCalled
    /\ typed = 0
    /\ handed = <<>>
    /\ history = <<>>

FoldIdle ==
    /\ fold_acc = NotCalled
    /\ fold_item = NoItem
    /\ fold_before = <<>>
    /\ fold_n = 0

\* no round trip is followed
RoundIdle ==
    /\ round_stack = <<>>
    /\ round_d = 0

session_vars == <<buffer, stack, pc, printed, input, line, residue,
                  prev_stack, calc_result, typed, handed, history>>
fold_vars == <<fold_acc, fold_item, fold_before, fold_n>>
round_vars == <<round_stack, round_d>>

\* fold(Ok(existing_stack), ..) with existing_stack any stack of rationals
InitCalc ==
    /\ overflow_checks \in BOOLEAN
    /\ SessionIdle
    /\ fold_acc \in {Ok(s) : s \in StackSet}
    /\ fold_item = NoItem
    /\ fold_before = <<>>
    /\ fold_n = 0
    /\ RoundIdle

\* the closure takes the next item with an Ok accumulator
FoldItem(it) ==
    /\ fold_n < MaxItems
    /\ fold_acc.tag = "Ok"
    /\ fold_acc' = fold_step(fold_acc, it)
    /\ fold_item' = it
    /\ fold_before' = fold_acc.stack
    /\ fold_n' = fold_n + 1
    /\ UNCHANGED <<overflow_checks, session_vars, round_vars>>

\* the closure takes the next item with an Err accumulator: `stack?` returns
FoldPass(it) ==
    /\ fold_n < MaxItems
    /\ fold_acc.tag \in {"NotEnoughItemsInStack", "MathError"}
    /\ fold_acc' = fold_step(fold_acc, it)
    /\ fold_n' = fold_n + 1
    /\ UNCHANGED <<fold_item, fold_before, overflow_checks, session_vars,
                   round_vars>>

NextCalc ==
    \/ \E it \in ItemSet : FoldItem(it)
    \/ \E it \in ItemSet : FoldPass(it)

SpecCalc == InitCalc /\ [][NextCalc]_vars

-----------------------------------------------------------------------------
(* The fold of Line::calc over the Line `d / d *`, one closure call per step, *)
(* from any non-empty stack of rationals in lowest terms                      *)

\* the integers a round trip divides and multiplies by
Divisors == {n \in Numers : n # 0}

\* the Line parsed from "d / d *"
RoundLine(d) ==
    <<Num(from_integer(d)), Operator("Divide"),
      Num(from_integer(d)), Operator("Multiply")>>

InitRound ==
    /\ overflow_checks \in BOOLEAN
    /\ SessionIdle
    /\ round_stack \in StackSet \ {<<>>}
    /\ round_d \in Divisors
    /\ fold_acc = Ok(round_stack)
    /\ fold_item = NoItem
    /\ fold_before = <<>>
    /\ fold_n = 0

\* the closure takes the next item of the Line
RoundItem ==
    /\ fold_n < Len(RoundLine(round_d))
    /\ fold_acc' = fold_step(fold_acc, RoundLine(round_d)[fold_n + 1])
    /\ fold_item' = RoundLine(round_d)[fold_n + 1]
    /\ fold_before' = fold_acc.stack
    /\ fold_n' = fold_n + 1
    /\ UNCHANGED <<overflow_checks, session_vars, round_vars>>

NextRound == RoundItem

SpecRound == InitRound /\ [][NextRound]_vars

-----------------------------------------------------------------------------
(* The parser: nom combinators over a sequence of characters *)

Whitespace == {" ", "\t", "\r", "\n"}
DigitChars == {"0", "1", "2", "3", "4", "5", "6", "7", "8", "9"}

DigitVal(c) ==
    CASE c = "0" -> 0 [] c = "1" -> 1 [] c = "2" -> 2 [] c = "3" -> 3
      [] c = "4" -> 4 [] c = "5" -> 5 [] c = "6" -> 6 [] c = "7" -> 7
      [] c = "8" -> 8 [] c = "9" -> 9

\* cc::multispace0: drops the leading whitespace, never fails
RECURSIVE multispace0(_)
multispace0(i) ==
    IF i # <<>> /\ Head(i) \in Whitespace THEN multispace0(Tail(i)) ELSE i

\* the digit loop of cc::i64: value.checked_mul(10) then checked_add(d) for a
\* positive literal, checked_sub(d) for a negative one; an overflow, or no
\* digit at position 0, is Err(Error(Digit))
RECURSIVE i64_digits(_, _, _, _)
i64_digits(i, value, positive, pos) ==
    IF i = <<>> THEN [ok |-> TRUE, v |-> value, rest |-> i]
    ELSE IF Head(i) \notin DigitChars
    THEN IF pos = 0 THEN [ok |-> FALSE, v |-> 0, rest |-> i]
         ELSE [ok |-> TRUE, v |-> value, rest |-> i]
    ELSE LET d == DigitVal(Head(i))
             m == value * 10
             n == IF positive THEN m + d ELSE m - d
         IN  IF ~InRange(m) \/ ~InRange(n)
             THEN [ok |-> FALSE, v |-> 0, rest |-> i]
             ELSE i64_digits(Tail(i), n, positive, pos + 1)

\* cc::i64: an optional sign, then one or more digits
cc_i64(i) ==
    LET signed == i # <<>> /\ Head(i) \in {"-", "+"}
        positive == ~(i # <<>> /\ Head(i) = "-")
        body == IF signed THEN Tail(i) ELSE i
    IN  IF body = <<>> THEN [ok |-> FALSE, v |-> 0, rest |-> i]
        ELSE i64_digits(body, 0, positive, 0)

\* Operator::parse: alt of seven one-character tags
Operator_parse(i) ==
    IF i = <<>> THEN [ok |-> FALSE, op |-> "none", rest |-> i]
    ELSE CASE Head(i) = "+" -> [ok |-> TRUE, op |-> "Add", rest |-> Tail(i)]
           [] Head(i) = "*" -> [ok |-> TRUE, op |-> "Multiply", rest |-> Tail(i)]
           [] Head(i) = "-" -> [ok |-> TRUE, op |-> "Subtract", rest |-> Tail(i)]
           [] Head(i) = "S" -> [ok |-> TRUE, op |-> "Sum", rest |-> Tail(i)]
           [] Head(i) = "^" -> [ok |-> TRUE, op |-> "Power", rest |-> Tail(i)]
           [] Head(i) = "c" -> [ok |-> TRUE, op |-> "Clear", rest |-> Tail(i)]
           [] Head(i) = "/" -> [ok |-> TRUE, op |-> "Divide", rest |-> Tail(i)]
           [] OTHER -> [ok |-> FALSE, op |-> "none", rest |-> i]

\* Item::parse: alt((cc::i64 -> Num, Operator::parse -> Operator))
Item_parse(i) ==
    LET n == cc_i64(i)
        o == Operator_parse(i)
    IN  IF n.ok THEN [ok |-> TRUE, item |-> Num(from_integer(n.v)), rest |-> n.rest]
        ELSE IF o.ok THEN [ok |-> TRUE, item |-> Operator(o.op), rest |-> o.rest]
        ELSE [ok |-> FALSE, item |-> NoItem, rest |-> i]

\* delimited(cc::multispace0, Item::parse, cc::multispace0)
delimited_item(i) ==
    LET r == Item_parse(multispace0(i))
    IN  IF r.ok THEN [ok |-> TRUE, item |-> r.item, rest |-> multispace0(r.rest)]
        ELSE [ok |-> FALSE, item |-> NoItem, rest |-> i]

\* many0: applies the parser until it returns Err(Error), and then returns
\* Ok with the input left and the items collected; it fails only if the
\* parser succeeds without consuming
RECURSIVE many0(_, _)
many0(i, collected) ==
    LET r == delimited_item(i)
    IN  IF ~r.ok THEN [ok |-> TRUE, rest |-> i, line |-> collected]
        ELSE IF Len(r.rest) = Len(i)
        THEN [ok |-> FALSE, rest |-> i, line |-> <<>>]
        ELSE many0(r.rest, Append(collected, r.item))

\* Line::parse: map(many0(delimited(..)), Line)
Line_parse(i) == many0(i, <<>>)

-----------------------------------------------------------------------------
(* main: the read-eval loop *)

\* the characters a line is typed from
Alphabet == {"1", "2", "9", "-", "/", "^", " ", "x"}

ExitLine == <<"e", "x", "i", "t", "\n">>

\* what read_line can append: a typed line with its newline, or exit
Texts(n) == {Append(t, "\n") : t \in SeqsUpTo(Alphabet, n)} \cup {ExitLine}

\* the stack a fold reaches before the first item that fails
RECURSIVE partial_stack(_, _)
partial_stack(s, its) ==
    IF its = <<>> THEN s
    ELSE LET r == calc_item(s, Head(its))
         IN  IF r.tag = "Ok" THEN partial_stack(r.stack, Tail(its)) ELSE s

\* main with calc working on the session stack itself, not on a clone
next_stack_in_place(st, r, ln) == partial_stack(st, ln)

\* main with every line evaluated on a new, empty stack
next_stack_fresh(st, r, ln) ==
    IF r.tag = "Ok" THEN calc(ln, <<>>).stack ELSE st

\* `line.calc(stack.clone())` and `if let Some(returned_stack) = ..
\* { stack = returned_stack }`: calc works on a clone, and the session stack is
\* replaced by the returned one on Ok and kept on a CalcError
next_stack(st, r, ln) == IF r.tag = "Ok" THEN r.stack ELSE st

\* the println! of each arm of the match on calc_result
message(r) ==
    IF r.tag = "Ok"
    THEN IF r.stack = <<>> THEN "nothing" ELSE "Stack: .., Result: .."
    ELSE IF r.tag = "NotEnoughItemsInStack"
    THEN "Stack: .., Not enough items in stack!"
    ELSE IF r.tag = "MathError" THEN "Stack: .., Math Error!"
    ELSE "panic"

\* the exit check against "exit" without the newline read_line keeps
is_exit_no_newline(b) == b = SubSeq(ExitLine, 1, 4)

\* `if buffer == "exit\n"`
is_exit(b) == b = ExitLine

\* the buffer cleared only when Line::parse consumed the whole text
buffer_after_complete(p, b) == IF p.ok /\ p.rest = <<>> THEN <<>> ELSE b

\* the buffer an iteration leaves: `buffer.clear()` stands in the Ok arm of the
\* match on Line::parse only
buffer_after(p, b) == IF p.ok THEN <<>> ELSE b

\* one iteration as the history keeps it
Iteration(text, ln, tag) == [text |-> text, line |-> ln, tag |-> tag]

Init ==
    /\ overflow_checks \in BOOLEAN
    /\ buffer = <<>>
    /\ stack = <<>>
    /\ pc = "loop"
    /\ printed = "nothing"
    /\ input = <<>>
    /\ line = <<>>
    /\ residue = <<>>
    /\ prev_stack = <<>>
    /\ calc_result = NotCalled
    /\ typed = 0
    /\ handed = <<>>
    /\ history = <<>>
    /\ FoldIdle
    /\ RoundIdle

\* one iteration that ends the session: read_line, buffer == "exit\n", exit(0)
ReadExit(text) ==
    /\ pc = "loop"
    /\ is_exit(buffer \o text)
    /\ buffer' = buffer \o text
    /\ handed' = buffer \o text
    /\ pc' = "exited"
    /\ input' = text
    /\ typed' = typed + Len(text)
    /\ printed' = "nothing"
    /\ line' = <<>>
    /\ residue' = <<>>
    /\ prev_stack' = stack
    /\ calc_result' = NotCalled
    /\ history' = Append(history, Iteration(text, <<>>, "exit"))
    /\ UNCHANGED <<stack, overflow_checks, fold_vars, round_vars>>

\* one iteration on any other line: read_line, Line::parse, line.calc on a
\* clone of the stack, the report, the assignment
ReadEval(text) ==
    /\ pc = "loop"
    /\ typed + Len(text) <= MaxTyped
    /\ ~is_exit(buffer \o text)
    /\ LET b == buffer \o text
           p == Line_parse(b)
           r == calc(p.line, stack)
       IN  /\ input' = text
           /\ typed' = typed + Len(text)
           /\ prev_stack' = stack
           /\ handed' = b
           /\ buffer' = buffer_after(p, b)
           /\ IF ~p.ok
              THEN /\ printed' = "Parsing Error!"
                   /\ line' = <<>>
                   /\ residue' = b
                   /\ calc_result' = NotCalled
                   /\ history' = Append(history, Iteration(text, <<>>, "Parsing Error"))
                   /\ UNCHANGED <<stack, pc>>
              ELSE /\ line' = p.line
                   /\ residue' = p.rest
                   /\ calc_result' = r
                   /\ printed' = message(r)
                   /\ stack' = next_stack(stack, r, p.line)
                   /\ pc' = IF r.tag = "Panic" THEN "panicked" ELSE "loop"
                   /\ history' = Append(history, Iteration(text, p.line, r.tag))
    /\ UNCHANGED <<overflow_checks, fold_vars, round_vars>>

Next ==
    \/ \E text \in Texts(MaxTyped - typed - 1) : ReadExit(text)
    \/ \E text \in Texts(MaxTyped - typed - 1) : ReadEval(text)

Spec == Init /\ [][Next]_vars

-----------------------------------------------------------------------------
(* Exact rational arithmetic, the reference the claims are stated against *)

\* n/d (d # 0) in lowest terms with a positive denominator, unbounded
Canon(n, d) ==
    LET g  == GCDNat(Abs(n), Abs(d))
        sg == IF d < 0 THEN -1 ELSE 1
    IN  Ratio((sg * n) \div g, (sg * d) \div g)

Representable(r) == InRange(r.numer) /\ InRange(r.denom)

IsBinary(it) == it.type = "Operator" /\ it.op \in BinaryOperators
IsOp(it, op) == it.type = "Operator" /\ it.op = op

\* the top of a stack, the entry below it, and what lies below both
Top(s) == s[Len(s)]
Second(s) == s[Len(s) - 1]
Below(s) == SubSeq(s, 1, Len(s) - 2)

\* a CalcError, as opposed to Ok and to a panic
IsCalcError(r) == r.tag \in {"NotEnoughItemsInStack", "MathError"}

\* a stack entry that denotes a rational number at all
IsRational(x) == x.denom # 0

\* x as an integer, where it is one
IsInteger(x) == IsRational(x) /\ Canon(x.numer, x.denom).denom = 1
IntegerOf(x) == Canon(x.numer, x.denom).numer

\* an exact result: whether it exists and is representable in the fixed-width
\* components, and its value in lowest terms
Exact(r) == [def |-> Representable(r), r |-> r]
Undefined == [def |-> FALSE, r |-> Zero]

\* c^e for c in lowest terms and e >= 0, which is in lowest terms again;
\* components out of range stay out of range
ExactPowNat(c, e) == Exact(Ratio(PowSat(c.numer, e), PowSat(c.denom, e)))

\* b^e for an integer e: the reciprocal's power when e < 0, undefined for 0^e
ExactPow(b, e) ==
    LET c == Canon(b.numer, b.denom)
    IN  IF e >= 0 THEN ExactPowNat(c, e)
        ELSE IF c.numer = 0 THEN Undefined
        ELSE ExactPowNat(Canon(c.denom, c.numer), -e)

\* b OP a, exactly
ExactBinary(op, b, a) ==
    IF ~IsRational(b) \/ ~IsRational(a) THEN Undefined
    ELSE CASE op = "Add" ->
                Exact(Canon(b.numer * a.denom + a.numer * b.denom,
                            b.denom * a.denom))
           [] op = "Subtract" ->
                Exact(Canon(b.numer * a.denom - a.numer * b.denom,
                            b.denom * a.denom))
           [] op = "Multiply" ->
                Exact(Canon(b.numer * a.numer, b.denom * a.denom))
           [] op = "Divide" ->
                IF a.numer = 0 THEN Undefined
                ELSE Exact(Canon(b.numer * a.denom, b.denom * a.numer))
           [] op = "Power" ->
                IF ~IsInteger(a) THEN Undefined
                ELSE ExactPow(b, IntegerOf(a))

\* the exact total of a stack, 0 for the empty one; undefined if an entry is
\* no rational or a partial total leaves the range by far
RECURSIVE ExactSumFrom(_, _)
ExactSumFrom(t, s) ==
    IF s = <<>> THEN t
    ELSE IF ~IsRational(Head(s)) THEN Undefined
    ELSE LET h == Head(s)
             n == Canon(t.r.numer * h.denom + h.numer * t.r.denom,
                        t.r.denom * h.denom)
         IN  ExactSumFrom([def |-> TRUE, r |-> n], Tail(s))

ExactSum(s) ==
    LET t == ExactSumFrom([def |-> TRUE, r |-> Zero], s)
    IN  IF t.def THEN Exact(t.r) ELSE Undefined

-----------------------------------------------------------------------------
(* Claims *)

\* C1 Failure atomicity: after a line whose evaluation returned a CalcError,
\* at whatever item, the session stack equals the stack held before the line.
C1_FailureAtomicity ==
    IsCalcError(calc_result) => stack = prev_stack

\* C1 witness: a line failed after its first item had changed the working
\* stack, on a non-empty session stack, and the session stack is as before.
C1_Witness ==
    /\ IsCalcError(calc_result)
    /\ prev_stack # <<>>
    /\ Len(line) >= 2
    /\ calc_item(prev_stack, line[1]).tag = "Ok"
    /\ calc_item(prev_stack, line[1]).stack # prev_stack
    /\ stack = prev_stack

\* a character that is neither whitespace nor part of a recognized token
TokenChars == DigitChars \cup {"+", "-", "*", "/", "S", "^", "c"}
HasUnrecognized(text) ==
    \E k \in 1..Len(text) : text[k] \notin (Whitespace \cup TokenChars)

\* C2 Whole-line parse rejection: a line with an unrecognized character is
\* rejected as a whole: no item of it, a valid prefix included, is evaluated
\* and the session stack is unchanged. (That the rejection is also reported as
\* a parse failure is left out: what is stated here follows from the claim.)
C2_WholeLineRejected ==
    (pc = "loop" /\ HasUnrecognized(input))
        => /\ line = <<>>
           /\ stack = prev_stack

\* C4 Underflow: a binary operator taken with fewer than two items on the
\* working stack returns NotEnoughItemsInStack, not MathError.
C4_Underflow ==
    (IsBinary(fold_item) /\ Len(fold_before) < 2)
        => fold_acc = NotEnoughItemsInStack

\* C4 witness: a binary operator was taken with exactly one item on the stack
\* and the fold holds NotEnoughItemsInStack.
C4_Witness ==
    /\ IsBinary(fold_item)
    /\ Len(fold_before) = 1
    /\ fold_acc = NotEnoughItemsInStack

\* C5 Division by zero: Divide taken with at least two items and a zero on top
\* returns MathError, and so pushes nothing.
C5_DivideByZero ==
    (IsOp(fold_item, "Divide") /\ Len(fold_before) >= 2
        /\ Top(fold_before).numer = 0)
        => fold_acc = MathError

\* C5 witness: Divide was taken on a stack of two with 0 on top and a non-zero
\* entry below it, and the fold holds MathError.
C5_Witness ==
    /\ IsOp(fold_item, "Divide")
    /\ Len(fold_before) = 2
    /\ Top(fold_before) = Zero
    /\ Second(fold_before).numer # 0
    /\ fold_acc = MathError

\* C3 Operand order: a binary operator that succeeds on a stack ending in
\* [.., b, a] leaves what was below b unchanged and, in place of b and a, the
\* single value b OP a.
C3_OperandOrder ==
    (IsBinary(fold_item) /\ Len(fold_before) >= 2 /\ fold_acc.tag = "Ok")
        => LET x == ExactBinary(fold_item.op, Second(fold_before),
                                Top(fold_before))
           IN  /\ x.def
               /\ fold_acc.stack = Append(Below(fold_before), x.r)

\* Beside C3: with both operands in lowest terms and b OP a defined and
\* representable (so, for Power, an integer exponent), the value pushed is
\* b OP a. TLC finds this to hold under SpecCalc.
Aux_OperandOrderWhereDefined ==
    (/\ IsBinary(fold_item) /\ Len(fold_before) >= 2 /\ fold_acc.tag = "Ok"
     /\ Reduced(Second(fold_before)) /\ Reduced(Top(fold_before))
     /\ ExactBinary(fold_item.op, Second(fold_before), Top(fold_before)).def)
        => fold_acc.stack =
             Append(Below(fold_before),
                    ExactBinary(fold_item.op, Second(fold_before),
                                Top(fold_before)).r)

\* C6 Checked binary arithmetic: Add, Subtract, Multiply and Divide on at
\* least two rationals whose exact result has a numerator or denominator that
\* is not representable (or has no result: a zero divisor) return MathError.
C6_CheckedArithmetic ==
    (/\ fold_item.type = "Operator"
     /\ fold_item.op \in {"Add", "Subtract", "Multiply", "Divide"}
     /\ Len(fold_before) >= 2
     /\ IsRational(Second(fold_before)) /\ IsRational(Top(fold_before))
     /\ ~ExactBinary(fold_item.op, Second(fold_before), Top(fold_before)).def)
        => fold_acc = MathError

\* Beside C6: with both operands in lowest terms, as every checked operation
\* and every parsed literal leaves them, an unrepresentable result is
\* MathError. TLC finds this to hold under SpecCalc.
Aux_CheckedArithmeticOnReduced ==
    (/\ fold_item.type = "Operator"
     /\ fold_item.op \in {"Add", "Subtract", "Multiply", "Divide"}
     /\ Len(fold_before) >= 2
     /\ Reduced(Second(fold_before)) /\ Reduced(Top(fold_before))
     /\ ~ExactBinary(fold_item.op, Second(fold_before), Top(fold_before)).def)
        => fold_acc = MathError

\* C7 Sum and Power fail closed: when the total of the stack (Sum), or b^a for
\* an integer exponent a that fits the exponent type (Power), is not
\* representable, the fold holds MathError: no wrapped value, no panic.
C7_SumPowerFailClosed ==
    (\/ /\ IsOp(fold_item, "Sum")
        /\ \A k \in 1..Len(fold_before) : IsRational(fold_before[k])
        /\ ~ExactSum(fold_before).def
     \/ /\ IsOp(fold_item, "Power")
        /\ Len(fold_before) >= 2
        /\ IsRational(Second(fold_before))
        /\ IsInteger(Top(fold_before))
        /\ IntegerOf(Top(fold_before)) >= 0
        /\ ~ExactBinary("Power", Second(fold_before), Top(fold_before)).def)
        => fold_acc = MathError

\* C8 Sum semantics: Sum on any stack, the empty one too, leaves exactly one
\* entry, the sum of all previous entries, and never fails with underflow.
C8_SumSemantics ==
    IsOp(fold_item, "Sum")
        => /\ ExactSum(fold_before).def
           /\ fold_acc = Ok(<<ExactSum(fold_before).r>>)

\* C9 Negative exponent: Power with a negative integer on top, on a stack of
\* at least two, returns MathError and pushes nothing.
C9_NegativeExponent ==
    (/\ IsOp(fold_item, "Power") /\ Len(fold_before) >= 2
     /\ IsInteger(Top(fold_before)) /\ IntegerOf(Top(fold_before)) < 0)
        => fold_acc = MathError

\* C10 Non-integral exponent: Power with a rational on top that is not an
\* integer, on a stack of at least two, returns MathError.
C10_NonIntegralExponent ==
    (/\ IsOp(fold_item, "Power") /\ Len(fold_before) >= 2
     /\ IsRational(Top(fold_before)) /\ ~IsInteger(Top(fold_before)))
        => fold_acc = MathError


-----------------------------------------------------------------------------
(* C11: signed literals *)

\* the text at a token position begins with a sign and a digit right after it
StartsSigned(t) ==
    /\ Len(t) >= 2
    /\ t[1] \in {"-", "+"}
    /\ t[2] \in DigitChars

\* i is the text left at a token position and its the items parsed from it:
\* every item that begins with a sign and a digit is a Num
RECURSIVE SignedAreLiterals(_, _)
SignedAreLiterals(i, its) ==
    IF its = <<>> THEN TRUE
    ELSE /\ StartsSigned(multispace0(i)) => Head(its).type = "Num"
         /\ SignedAreLiterals(delimited_item(i).rest, Tail(its))

\* "3 6-2**" and the Line the claim gives for it
WeirdSpaces == <<"3", " ", "6", "-", "2", "*", "*">>
WeirdSpacesLine ==
    <<Num(from_integer(3)), Num(from_integer(6)), Num(from_integer(-2)),
      Operator("Multiply"), Operator("Multiply")>>

\* C11 (sign disambiguation): at every token position of the text handed to
\* Line::parse, a '-' or '+' immediately followed by a digit is parsed, with
\* the digits, as one Num and never as Subtract or Add; and "3 6-2**" parses to
\* [3, 6, -2, Multiply, Multiply], which evaluates on the empty stack to [-36].
C11_SignDisambiguation ==
    /\ pc \in {"loop", "panicked"} => SignedAreLiterals(handed, line)
    /\ Line_parse(WeirdSpaces).line = WeirdSpacesLine
    /\ calc(WeirdSpacesLine, <<>>) = Ok(<<from_integer(-36)>>)

\* Beside C11: the example of the claim alone. TLC finds this to hold under
\* Spec.
Aux_WeirdSpacesExample ==
    /\ Line_parse(WeirdSpaces).line = WeirdSpacesLine
    /\ calc(WeirdSpacesLine, <<>>) = Ok(<<from_integer(-36)>>)

\* Beside C11: a sign followed by digits whose value fits the integer type is
\* one Num. TLC finds this to hold under Spec.
Aux_SignedLiteralInRange ==
    (/\ pc = "loop"
     /\ Len(handed) = 4
     /\ handed[1] = "-"
     /\ handed[2] \in DigitChars
     /\ handed[3] \in Whitespace)
        => line = <<Num(from_integer(-DigitVal(handed[2])))>>

-----------------------------------------------------------------------------
(* C12: the session survives *)

\* C12 (session survives every error): after any line other than the exit
\* line, accepted or failed, the main loop has neither ended nor aborted: it
\* is back at the head of the loop, about to read the next line.
C12_SessionSurvives ==
    (history # <<>> /\ handed # ExitLine) => pc = "loop"

\* Beside C12: a line that fails with a CalcError, or that leaves characters
\* unparsed, leaves the loop running. TLC finds this to hold under Spec.
Aux_SurvivesCalcError ==
    (\/ IsCalcError(calc_result)
     \/ (history # <<>> /\ handed # ExitLine /\ residue # <<>>
         /\ calc_result.tag # "Panic"))
        => pc = "loop"

-----------------------------------------------------------------------------
(* C13: Divide/Multiply round trip *)

\* v / d, exactly
RoundQuotient == ExactBinary("Divide", Top(round_stack), from_integer(round_d))

\* no intermediate numerator or denominator exceeds the overflow bound: the
\* quotient v / d, in lowest terms, is representable (v itself is)
RoundInBounds == RoundQuotient.def

\* C13 (Divide/Multiply round trip): for a rational v on top of the stack and
\* a non-zero integer d, after evaluating d Divide d Multiply the top of the
\* stack is exactly v and the rest of the stack is unchanged, provided no
\* intermediate numerator or denominator exceeds the overflow bound.
C13_RoundTrip ==
    (fold_n = 4 /\ round_d # 0 /\ RoundInBounds)
        => fold_acc = Ok(round_stack)

\* C13 witness: a round trip is through whose quotient is a proper fraction
\* and whose stack has an entry below v, and the stack is as it began.
C13_Witness ==
    /\ fold_n = 4
    /\ round_d \notin {1, -1}
    /\ RoundInBounds
    /\ RoundQuotient.r.denom # 1
    /\ Len(round_stack) = 2
    /\ fold_acc = Ok(round_stack)

-----------------------------------------------------------------------------
(* C14: the exit command *)

\* C14 (exit command): whenever the line entered is exactly exit, the session
\* ends, the line is neither parsed nor evaluated and the stack is unchanged,
\* whatever lines were entered before it.
C14_ExitCommand ==
    (history # <<>> /\ input = ExitLine)
        => /\ pc = "exited"
           /\ line = <<>>
           /\ calc_result = NotCalled
           /\ stack = prev_stack

\* C14 witness: exit was entered after an accepted line and a failed one, with
\* a non-empty stack, and the session has ended with the stack as it was.
C14_Witness ==
    /\ pc = "exited"
    /\ input = ExitLine
    /\ stack # <<>>
    /\ stack = prev_stack
    /\ \E i \in 1..Len(history) : history[i].tag = "Ok" /\ history[i].line # <<>>
    /\ \E i \in 1..Len(history) :
          history[i].tag \in {"NotEnoughItemsInStack", "MathError"}

-----------------------------------------------------------------------------
(* C15: the session is a fold *)

\* every line so far evaluated successfully
AllOk == \A i \in 1..Len(history) : history[i].tag = "Ok"

\* the items of the lines of h, concatenated; with okOnly, of those lines only
\* that evaluated successfully
RECURSIVE Tokens(_, _)
Tokens(h, okOnly) ==
    IF h = <<>> THEN <<>>
    ELSE (IF okOnly /\ Head(h).tag # "Ok" THEN <<>> ELSE Head(h).line)
         \o Tokens(Tail(h), okOnly)

\* C15 (session equals a fold): from the empty stack, after any sequence of
\* lines that each evaluated successfully, the session stack is the result of
\* evaluating the concatenation of all their tokens as one line on the empty
\* stack.
C15_SessionIsFold ==
    (pc = "loop" /\ AllOk)
        => calc(Tokens(history, FALSE), <<>>) = Ok(stack)

\* C15 witness: two lines evaluated successfully, the second one's operator
\* taking an operand the first line left, and the stack is that of the one
\* line.
C15_Witness ==
    /\ pc = "loop"
    /\ AllOk
    /\ Len(history) = 2
    /\ history[1].line # <<>>
    /\ \E k \in 1..Len(history[2].line) : IsBinary(history[2].line[k])
    /\ calc(history[2].line, <<>>).tag = "NotEnoughItemsInStack"
    /\ stack # <<>>
    /\ calc(Tokens(history, FALSE), <<>>) = Ok(stack)

\* Beside C15, the fold with rollback: after any sequence of lines, the session
\* stack is the result of evaluating the tokens of the lines that succeeded.
\* TLC finds this to hold under Spec.
Aux_SessionIsFoldWithRollback ==
    pc = "loop" => calc(Tokens(history, TRUE), <<>>) = Ok(stack)

-----------------------------------------------------------------------------
(* C16: one line per cycle *)

\* C16 (one line per cycle): whenever the main loop reads a line the buffer
\* holds nothing of an earlier line, so the text handed to the exit check and
\* to Line::parse is exactly the line just entered, also after a line the
\* parser did not accept.
C16_OneLinePerCycle ==
    /\ pc = "loop" => buffer = <<>>
    /\ history # <<>> => handed = input

\* C16 witness: a line with an unrecognized character was read, and after it
\* another line, of which Line::parse made items; the text handed over was
\* that line alone.
C16_Witness ==
    /\ Len(history) >= 2
    /\ HasUnrecognized(history[Len(history) - 1].text)
    /\ line # <<>>
    /\ handed = input
    /\ buffer = <<>>

-----------------------------------------------------------------------------
(* C17: lowest terms *)

\* C17 (lowest-terms invariant): after any sequence of successfully evaluated
\* tokens every stack entry has a positive denominator and is in lowest
\* terms.
C17_LowestTerms ==
    fold_acc.tag = "Ok"
        => \A i \in 1..Len(fold_acc.stack) : Reduced(fold_acc.stack[i])

\* Beside C17: Number tokens, Add, Subtract, Multiply, Divide and Clear keep
\* a stack of entries in lowest terms in lowest terms, and so do Sum and Power
\* in a build with overflow checks. TLC finds this to hold under SpecCalc.
Aux_LowestTermsKept ==
    (/\ fold_n > 0
     /\ fold_acc.tag = "Ok"
     /\ \A i \in 1..Len(fold_before) : Reduced(fold_before[i])
     /\ \/ fold_item.type = "Num"
        \/ fold_item.op \in {"Add", "Subtract", "Multiply", "Divide", "Clear"}
        \/ overflow_checks)
        => \A i \in 1..Len(fold_acc.stack) : Reduced(fold_acc.stack[i])

\* Beside C17: the examples of the claim. 2 4 / and 1 2 / leave [1/2], and
\* 1 2 / 1 2 / + leaves [1]. TLC finds this to hold under SpecCalc.
Aux_FractionExamples ==
    /\ calc(<<Num(from_integer(2)), Num(from_integer(4)), Operator("Divide")>>,
            <<>>) = Ok(<<Ratio(1, 2)>>)
    /\ calc(<<Num(from_integer(1)), Num(from_integer(2)), Operator("Divide")>>,
            <<>>) = Ok(<<Ratio(1, 2)>>)
    /\ calc(<<Num(from_integer(1)), Num(from_integer(2)), Operator("Divide"),
              Num(from_integer(1)), Num(from_integer(2)), Operator("Divide"),
              Operator("Add")>>, <<>>) = Ok(<<One>>)

-----------------------------------------------------------------------------
(* C18: stack frame effect *)

\* texts of whitespace only, the empty one among them
BlankTexts == SeqsUpTo(Whitespace, 2)

\* C18 (stack frame effect): a successful Number token leaves the existing
\* entries unchanged and appends one; a successful binary operator leaves the
\* entries below the top two unchanged and in order and makes the stack one
\* shorter; an empty or whitespace-only line parses to the empty Line, which
\* returns the stack unchanged.
C18_FrameEffect ==
    /\ (fold_n > 0 /\ fold_acc.tag = "Ok" /\ fold_item.type = "Num")
          => fold_acc.stack = Append(fold_before, fold_item.number)
    /\ (fold_n > 0 /\ fold_acc.tag = "Ok" /\ IsBinary(fold_item))
          => /\ Len(fold_before) >= 2
             /\ Len(fold_acc.stack) = Len(fold_before) - 1
             /\ SubSeq(fold_acc.stack, 1, Len(fold_before) - 2)
                    = Below(fold_before)
    /\ fold_n = 0
          => /\ \A t \in BlankTexts :
                   /\ Line_parse(t).ok
                   /\ Line_parse(t).line = <<>>
             /\ calc(<<>>, fold_acc.stack) = fold_acc

\* C18 witness: a binary operator succeeded on a stack of three entries, the
\* top one pushed by a Number token before, and the entry below the top two
\* is where it was.
C18_Witness ==
    /\ fold_n >= 2
    /\ fold_acc.tag = "Ok"
    /\ IsBinary(fold_item)
    /\ Len(fold_before) = 3
    /\ Len(fold_acc.stack) = 2
    /\ fold_acc.stack[1] = fold_before[1]
    /\ fold_acc.stack[1] # fold_acc.stack[2]

=============================================================================
